---- MODULE Spec2Model ----
(***************************************************************************)
(* Model of the bounded-concurrency queue of src/JavaScript/5-pipe.js      *)
(* (classes QueueFactory and Queue).                                       *)
(*                                                                         *)
(* JavaScript runs every queue method to completion on one thread, so one  *)
(* action of the model is one run-to-completion step of the event loop: a  *)
(* caller's add / pause / resume, a handler invoking its completion        *)
(* callback, a process-timeout timer firing, or a deferred pull            *)
(* (setTimeout 0) firing.  Everything such a step calls synchronously      *)
(* (next, the finish closure, takeNext, finish, listeners, a synchronous   *)
(* handler) is part of the same action and is computed by the recursive    *)
(* operators below on a record s of the mutable state.                     *)
(*                                                                         *)
(* Instrumentation (not program state): trace is the list of observable    *)
(* events of the last step, lastOp names the last step and the values just *)
(* before it, startSeq / wfailed / dropped record what became of a task.   *)
(*                                                                         *)
(* Spec is one queue under every configuration of channels, priority mode, *)
(* wait timeout and process timeout; SpecPriority is a one-channel         *)
(* priority queue whose callers use every priority level; SpecPipe is a    *)
(* source queue piped to a destination queue, each built from its own      *)
(* factory; SpecShared is two queues built from one factory.               *)
(***************************************************************************)
EXTENDS Integers, Sequences, FiniteSets, TLC

VARIABLES
  cfg,       \* q -> configuration copied from the factory (immutable)
  dest,      \* q -> destination queue or Null
  count,     \* q -> this.count
  paused,    \* q -> this.paused
  wref,      \* q -> identity of the array this.waiting refers to
  arrays,    \* array identity -> contents (sequence of waiting entries)
  acts,      \* activation records of next(): closure variables finished, timer
  deferred,  \* q -> number of pending setTimeout(..., 0) pulls
  now,       \* Date.now()
  nextId,    \* next fresh task identity (instrumentation)
  arrival,   \* q -> the add calls on q, in order: id and tier (instrumentation)
  startSeq,  \* q -> ids in the order the handler was invoked (instrumentation)
  wfailed,   \* q -> ids failed with 'Waiting timed out' (instrumentation)
  dropped,   \* q -> ids removed from waiting and neither started nor failed
  trace,     \* events of the last step (instrumentation)
  lastOp     \* the last step and the values just before it (instrumentation)

vars == <<cfg, dest, count, paused, wref, arrays, acts, deferred, now, nextId,
          arrival, startSeq, wfailed, dropped, trace, lastOp>>

(* ------------------------------ bounds -------------------------------- *)
MaxTasks == 3
MaxTime == 2
MaxPriority == 2
MaxChannels == 2

(* ----------------------------- constants ------------------------------ *)
Infinity == 1000000
Null == "null"
Queues == {"A", "B"}
Kinds == {"async", "sync"}
Priorities == 0..MaxPriority
NoErr == "none"
HandlerError == "handler"
ProcessTimedOut == "Process timed out"
WaitingTimedOut == "Waiting timed out"

(* ----------------------------- helpers -------------------------------- *)
Waiting(s, q) == s.arrays[s.wref[q]]

SetWaiting(s, q, w) == [s EXCEPT !.arrays[s.wref[q]] = w]

\* The tier within which the queue serves in arrival order: the priority in
\* priority mode, one tier for all tasks in FIFO mode.
Tier(s, q, priority) == IF s.cfg[q].priorityMode THEN priority ELSE 0

\* Position of the add call of task id among the add calls on q; 0 for a
\* task that was never added to q (its entry came through an array that q
\* shares with another queue).
ArrivalOf(arr, id) ==
  IF \E i \in 1..Len(arr) : arr[i].id = id
  THEN CHOOSE i \in 1..Len(arr) : arr[i].id = id
  ELSE 0

\* e is, among the entries w, one of the highest priority (any entry in FIFO
\* mode) and of these the one added first.
IsBest(arr, priorityMode, w, e) ==
  \A i \in 1..Len(w) :
    /\ priorityMode => w[i].priority <= e.priority
    /\ (~priorityMode \/ w[i].priority = e.priority)
         => ArrivalOf(arr, e.task.id) <= ArrivalOf(arr, w[i].task.id)

\* An observable event of the running step, with count and waiting.length
\* as they are when it happens.
Event(s, ev, q, id, err) ==
  [ev |-> ev, q |-> q, id |-> id, err |-> err, count |-> s.count[q],
   wlen |-> Len(Waiting(s, q)), start |-> 0 - 1, best |-> TRUE]

Emit(s, ev, q, id, err) ==
  [s EXCEPT !.trace = Append(@, Event(s, ev, q, id, err))]

\* The event of waiting.shift() (line 121) returning entry e: s is the state
\* before the shift.
EmitShift(s, q, e, err) ==
  [s EXCEPT !.trace = Append(@,
     [Event(s, "shift", q, e.task.id, err) EXCEPT
        !.start = e.start,
        !.best = IsBest(s.arrival[q], s.cfg[q].priorityMode, Waiting(s, q), e)])]

\* A variant of MayPull that does not look at paused.
MayPullIgnoringPause(s, q) == Len(Waiting(s, q)) > 0

\* lines 109 and 130: if (!this.paused && waiting.length > 0) this.takeNext()
MayPull(s, q) == ~s.paused[q] /\ Len(Waiting(s, q)) > 0

\* A variant of HasChannel that admits one task too many.
HasChannelOffByOne(s, q) == s.count[q] <= s.cfg[q].concurrency

\* line 85 / 137: const hasChannel = this.count < this.concurrency
HasChannel(s, q) == s.count[q] < s.cfg[q].concurrency

\* A variant of InsertDesc that puts e before the entries of its own priority.
RECURSIVE InsertDescUnstable(_, _)
InsertDescUnstable(w, e) ==
  IF w = <<>> THEN <<e>>
  ELSE IF Head(w).priority > e.priority
       THEN <<Head(w)>> \o InsertDescUnstable(Tail(w), e)
       ELSE <<e>> \o w

\* Array.prototype.sort((a, b) => b.priority - a.priority): a stable sort,
\* priority descending.  InsertDesc puts e after every entry of priority >= its own.
RECURSIVE InsertDesc(_, _)
InsertDesc(w, e) ==
  IF w = <<>> THEN <<e>>
  ELSE IF Head(w).priority >= e.priority
       THEN <<Head(w)>> \o InsertDesc(Tail(w), e)
       ELSE <<e>> \o w

RECURSIVE SortDesc(_)
SortDesc(w) ==
  IF w = <<>> THEN <<>>
  ELSE InsertDesc(SortDesc(SubSeq(w, 1, Len(w) - 1)), w[Len(w)])

\* A variant of Expired that allows one more millisecond of waiting.
ExpiredLate(s, q, e) ==
  /\ s.cfg[q].waitTimeout # Infinity
  /\ s.now - e.start > s.cfg[q].waitTimeout + 1

\* lines 123-125: waitTimeout !== Infinity and Date.now() - start > waitTimeout
Expired(s, q, e) ==
  /\ s.cfg[q].waitTimeout # Infinity
  /\ s.now - e.start > s.cfg[q].waitTimeout

Act(s, q, id) == CHOOSE a \in s.acts : a.q = q /\ a.task.id = id

(* --------------------------- Queue methods ---------------------------- *)
(* Each operator takes the state record s, runs the method as the code     *)
(* does and returns the state after it.  s.readd is this step's choice of  *)
(* the (opaque) onFailure listener: whether it retries by calling add      *)
(* re-entrantly, as section 7 of the specification describes.              *)
RECURSIVE add(_, _, _, _), next(_, _, _), finishCb(_, _, _, _, _),
          takeNext(_, _), finish(_, _, _, _)

\* A variant of add that does not look at paused.
addIgnoringPause(s0, q, task, priority) ==
  LET s == [s0 EXCEPT !.arrival[q] =
              Append(@, [id |-> task.id, tier |-> Tier(s0, q, priority)])]
  IN  IF HasChannel(s, q)
      THEN next(s, q, task)
      ELSE LET e  == [task |-> task, start |-> s.now, priority |-> priority]
               w1 == Append(Waiting(s, q), e)
               w2 == IF s.cfg[q].priorityMode THEN SortDesc(w1) ELSE w1
           IN  Emit(SetWaiting(s, q, w2), "enqueue", q, task.id, NoErr)

\* lines 83-96
add(s0, q, task, priority) ==
  LET s == [s0 EXCEPT !.arrival[q] =
              Append(@, [id |-> task.id, tier |-> Tier(s0, q, priority)])]
  IN  IF ~s.paused[q] /\ HasChannel(s, q)
      THEN next(s, q, task)
      ELSE LET e  == [task |-> task, start |-> s.now, priority |-> priority]
               w1 == Append(Waiting(s, q), e)
               w2 == IF s.cfg[q].priorityMode THEN SortDesc(w1) ELSE w1
           IN  Emit(SetWaiting(s, q, w2), "enqueue", q, task.id, NoErr)

\* A variant of next that never arms the process-timeout timer.
nextNoTimer(s, q, task) ==
  LET a  == [q |-> q, task |-> task, finished |-> FALSE,
             timer |-> "none", deadline |-> 0]
      s1 == [s EXCEPT !.count[q] = @ + 1,
                      !.acts = @ \cup {a},
                      !.startSeq[q] = Append(@, task.id)]
      s2 == Emit(s1, "process", q, task.id, NoErr)
  IN  IF task.kind = "sync" THEN finishCb(s2, q, task.id, NoErr, task) ELSE s2

\* lines 98-117: count++, arm the timer, invoke the handler.  A handler of
\* kind "sync" calls the completion callback before it returns (as the
\* destination queue's handler of line 182 does).
next(s, q, task) ==
  LET timed == s.cfg[q].processTimeout # Infinity
      a  == [q |-> q, task |-> task, finished |-> FALSE,
             timer |-> IF timed THEN "armed" ELSE "none",
             deadline |-> IF timed THEN s.now + s.cfg[q].processTimeout ELSE 0]
      s1 == [s EXCEPT !.count[q] = @ + 1,
                      !.acts = @ \cup {a},
                      !.startSeq[q] = Append(@, task.id)]
      s2 == Emit(s1, "process", q, task.id, NoErr)
  IN  IF task.kind = "sync" THEN finishCb(s2, q, task.id, NoErr, task) ELSE s2

\* A variant of finishCb without the finished flag of line 104.
finishCbNoGuard(s, q, id, err, res) ==
  LET a  == Act(s, q, id)
      a1 == [a EXCEPT !.finished = TRUE,
                      !.timer = IF @ = "none" THEN "none" ELSE "off"]
      s1 == [s EXCEPT !.acts = (@ \ {a}) \cup {a1},
                      !.count[q] = @ - 1]
      s2 == finish(s1, q, err, res)
  IN  IF MayPull(s2, q) THEN takeNext(s2, q) ELSE s2

\* lines 103-110: the completion callback of the activation (q, id)
finishCb(s, q, id, err, res) ==
  LET a == Act(s, q, id)
  IN  IF a.finished
      THEN Emit(s, "ignored", q, id, err)
      ELSE LET a1 == [a EXCEPT !.finished = TRUE,
                               !.timer = IF @ = "none" THEN "none" ELSE "off"]
               s1 == [s EXCEPT !.acts = (@ \ {a}) \cup {a1},
                               !.count[q] = @ - 1]
               s2 == finish(s1, q, err, res)
           IN  IF MayPull(s2, q) THEN takeNext(s2, q) ELSE s2

\* A variant of takeNext that releases a channel when it fails an entry that
\* waited too long.
takeNextReleasing(s, q) ==
  IF Waiting(s, q) = <<>>
  THEN Emit([s EXCEPT !.thrown = TRUE], "throw", q, 0, "TypeError")
  ELSE LET e  == Head(Waiting(s, q))
           s1 == SetWaiting(s, q, Tail(Waiting(s, q)))
       IN  IF Expired(s1, q, e)
           THEN LET s2 == [s1 EXCEPT !.trace =
                                 EmitShift(s, q, e, WaitingTimedOut).trace,
                                     !.count[q] = @ - 1]
                    s4 == finish(s2, q, WaitingTimedOut, e.task)
                IN  IF Len(Waiting(s4, q)) > 0
                    THEN Emit([s4 EXCEPT !.deferred[q] = @ + 1],
                              "defer", q, 0, NoErr)
                    ELSE s4
           ELSE LET s2 == [s1 EXCEPT !.trace = EmitShift(s, q, e, NoErr).trace]
                IN  IF HasChannel(s2, q)
                    THEN next(s2, q, e.task)
                    ELSE Emit([s2 EXCEPT !.dropped[q] = @ \cup {e.task.id}],
                              "drop", q, e.task.id, NoErr)

\* A variant of takeNext without the return of line 133: an entry that
\* waited too long is failed and then started all the same.
takeNextFallingThrough(s, q) ==
  IF Waiting(s, q) = <<>>
  THEN Emit([s EXCEPT !.thrown = TRUE], "throw", q, 0, "TypeError")
  ELSE LET e  == Head(Waiting(s, q))
           s1 == SetWaiting(s, q, Tail(Waiting(s, q)))
           s3 == IF Expired(s1, q, e)
                 THEN LET s2 == [s1 EXCEPT !.trace =
                                   EmitShift(s, q, e, WaitingTimedOut).trace]
                          s4 == finish(s2, q, WaitingTimedOut, e.task)
                      IN  IF Len(Waiting(s4, q)) > 0
                          THEN Emit([s4 EXCEPT !.deferred[q] = @ + 1],
                                    "defer", q, 0, NoErr)
                          ELSE s4
                 ELSE [s1 EXCEPT !.trace = EmitShift(s, q, e, NoErr).trace]
       IN  IF HasChannel(s3, q)
           THEN next(s3, q, e.task)
           ELSE Emit([s3 EXCEPT !.dropped[q] = @ \cup {e.task.id}],
                     "drop", q, e.task.id, NoErr)

\* lines 119-140.  waiting.shift() of an empty array is undefined, and the
\* destructuring of line 121 then throws a TypeError: s.thrown.
takeNext(s, q) ==
  IF Waiting(s, q) = <<>>
  THEN Emit([s EXCEPT !.thrown = TRUE], "throw", q, 0, "TypeError")
  ELSE LET e  == Head(Waiting(s, q))
           s1 == SetWaiting(s, q, Tail(Waiting(s, q)))
       IN  IF Expired(s1, q, e)
           THEN LET s2 == [s1 EXCEPT !.trace =
                                 EmitShift(s, q, e, WaitingTimedOut).trace]
                    s4 == finish(s2, q, WaitingTimedOut, e.task)
                IN  IF Len(Waiting(s4, q)) > 0
                    THEN Emit([s4 EXCEPT !.deferred[q] = @ + 1],
                              "defer", q, 0, NoErr)
                    ELSE s4
           ELSE LET s2 == [s1 EXCEPT !.trace = EmitShift(s, q, e, NoErr).trace]
                IN  IF HasChannel(s2, q)
                    THEN next(s2, q, e.task)
                    ELSE Emit([s2 EXCEPT !.dropped[q] = @ \cup {e.task.id}],
                              "drop", q, e.task.id, NoErr)

\* A variant of finish that hands the task of a failure to the destination
\* too.
finishForwardingFailures(s, q, err, res) ==
  LET s1 == IF err # NoErr
            THEN LET f == Emit([s EXCEPT !.wfailed[q] =
                                   IF err = WaitingTimedOut
                                   THEN @ \cup {res.id} ELSE @],
                               "failure", q, res.id, err)
                 IN  IF f.dest[q] # Null
                     THEN add(Emit(f, "forward", q, res.id, NoErr),
                              f.dest[q], res, 0)
                     ELSE f
            ELSE LET g == Emit(s, "success", q, res.id, NoErr)
                 IN  IF g.dest[q] # Null
                     THEN add(Emit(g, "forward", q, res.id, NoErr),
                              g.dest[q], res, 0)
                     ELSE g
      s2 == Emit(s1, "done", q, res.id, err)
  IN  IF s2.count[q] = 0 THEN Emit(s2, "drain", q, 0, NoErr) ELSE s2

\* A variant of finish that calls onDone before the other listeners.
finishDoneFirst(s, q, err, res) ==
  LET s0 == Emit(s, "done", q, res.id, err)
      s1 == IF err # NoErr
            THEN LET f == Emit([s0 EXCEPT !.wfailed[q] =
                                   IF err = WaitingTimedOut
                                   THEN @ \cup {res.id} ELSE @],
                               "failure", q, res.id, err)
                 IN  IF f.readd /\ f.nextId <= MaxTasks
                     THEN add([f EXCEPT !.nextId = @ + 1], q,
                              [id |-> f.nextId, kind |-> "async"], 0)
                     ELSE f
            ELSE LET g == Emit(s0, "success", q, res.id, NoErr)
                 IN  IF g.dest[q] # Null
                     THEN add(Emit(g, "forward", q, res.id, NoErr),
                              g.dest[q], res, 0)
                     ELSE g
  IN  IF s1.count[q] = 0 THEN Emit(s1, "drain", q, 0, NoErr) ELSE s1

\* lines 142-153
finish(s, q, err, res) ==
  LET s1 == IF err # NoErr
            THEN LET f == Emit([s EXCEPT !.wfailed[q] =
                                   IF err = WaitingTimedOut
                                   THEN @ \cup {res.id} ELSE @],
                               "failure", q, res.id, err)
                 IN  IF f.readd /\ f.nextId <= MaxTasks
                     THEN add([f EXCEPT !.nextId = @ + 1], q,
                              [id |-> f.nextId, kind |-> "async"], 0)
                     ELSE f
            ELSE LET g == Emit(s, "success", q, res.id, NoErr)
                 IN  IF g.dest[q] # Null
                     THEN add(Emit(g, "forward", q, res.id, NoErr),
                              g.dest[q], res, 0)
                     ELSE g
      s2 == Emit(s1, "done", q, res.id, err)
  IN  IF s2.count[q] = 0 THEN Emit(s2, "drain", q, 0, NoErr) ELSE s2

\* lines 155-158
pause(s, q) == [s EXCEPT !.paused[q] = TRUE]

\* lines 163-165: for (let i = 0; i < channels; i++) this.takeNext();
\* an exception thrown by takeNext leaves the loop and resume.
RECURSIVE resumeLoop(_, _, _)
resumeLoop(s, q, n) ==
  IF n <= 0 \/ s.thrown THEN s ELSE resumeLoop(takeNext(s, q), q, n - 1)

\* lines 160-169
resume(s, q) ==
  LET s1 == IF Len(Waiting(s, q)) > 0
            THEN resumeLoop(s, q, s.cfg[q].concurrency - s.count[q])
            ELSE s
  IN  IF s1.thrown THEN s1 ELSE [s1 EXCEPT !.paused[q] = FALSE]

\* lines 171-174
pipe(s, q, d) == [s EXCEPT !.dest[q] = d]

(* ------------------------------ actions ------------------------------- *)
\* The mutable state as a record, with this step's listener choice.
S(readd) ==
  [cfg |-> cfg, dest |-> dest, count |-> count, paused |-> paused,
   wref |-> wref, arrays |-> arrays, acts |-> acts, deferred |-> deferred,
   now |-> now, nextId |-> nextId, arrival |-> arrival, startSeq |-> startSeq,
   wfailed |-> wfailed, dropped |-> dropped, trace |-> <<>>,
   thrown |-> FALSE, readd |-> readd]

\* The retrying listener needs a fresh task identity: without one its choice
\* changes nothing.
Retry == IF nextId <= MaxTasks THEN BOOLEAN ELSE {FALSE}

\* Priorities the callers of q pass.
PrioritiesOf(q) == cfg[q].priorities

Op(name, q, id, err) ==
  [name |-> name, q |-> q, id |-> id, err |-> err, count |-> count[q],
   wlen |-> Len(arrays[wref[q]]), paused |-> paused[q]]

Commit(s, op) ==
  /\ count' = s.count
  /\ paused' = s.paused
  /\ arrays' = s.arrays
  /\ acts' = s.acts
  /\ deferred' = s.deferred
  /\ nextId' = s.nextId
  /\ arrival' = s.arrival
  /\ startSeq' = s.startSeq
  /\ wfailed' = s.wfailed
  /\ dropped' = s.dropped
  /\ dest' = s.dest
  /\ trace' = s.trace
  /\ lastOp' = [op EXCEPT !.thrown = s.thrown]
  /\ UNCHANGED <<cfg, wref, now>>

\* A caller invokes q.add(task, priority) with a fresh task.
Add(q) ==
  /\ nextId <= MaxTasks
  /\ \E k \in Kinds, p \in PrioritiesOf(q), r \in Retry :
       Commit(add([S(r) EXCEPT !.nextId = @ + 1], q,
                  [id |-> nextId, kind |-> k], p),
              Op("add", q, nextId, NoErr) @@ [thrown |-> FALSE])

\* The handler of a started task invokes its completion callback, with or
\* without an error, for the first time or again (line 104 ignores a repeated
\* call whatever its arguments: one choice of them stands for all).
HandlerCallback(q) ==
  \E a \in acts, err \in {NoErr, HandlerError}, r \in Retry :
    /\ a.q = q
    /\ a.finished => (err = NoErr /\ ~r)
    /\ Commit(finishCb(S(r), q, a.task.id, err, a.task),
              Op("callback", q, a.task.id, err) @@ [thrown |-> FALSE])

\* line 114: the process-timeout timer of a started task fires.
TimerFire(q) ==
  \E a \in acts, r \in Retry :
    /\ a.q = q
    /\ a.timer = "armed"
    /\ now >= a.deadline
    /\ Commit(finishCb(S(r), q, a.task.id, ProcessTimedOut, a.task),
              Op("timer", q, a.task.id, ProcessTimedOut) @@ [thrown |-> FALSE])

\* lines 129-131: a deferred pull fires.
DeferredPull(q) ==
  /\ deferred[q] > 0
  /\ \E r \in Retry :
       LET s0 == [S(r) EXCEPT !.deferred[q] = @ - 1]
       IN  Commit(IF MayPull(s0, q) THEN takeNext(s0, q) ELSE s0,
                  Op("deferred", q, 0, NoErr) @@ [thrown |-> FALSE])

Pause(q) ==
  /\ paused' = pause(S(FALSE), q).paused
  /\ trace' = <<>>
  /\ lastOp' = Op("pause", q, 0, NoErr) @@ [thrown |-> FALSE]
  /\ UNCHANGED <<cfg, dest, count, wref, arrays, acts, deferred, now, nextId,
                 arrival, startSeq, wfailed, dropped>>

Resume(q) ==
  \E r \in Retry :
    Commit(resume(S(r), q), Op("resume", q, 0, NoErr) @@ [thrown |-> FALSE])

\* Time passes.
Tick ==
  /\ now < MaxTime
  /\ now' = now + 1
  /\ trace' = <<>>
  /\ lastOp' = Op("tick", "A", 0, NoErr) @@ [thrown |-> FALSE]
  /\ UNCHANGED <<cfg, dest, count, paused, wref, arrays, acts, deferred,
                 nextId, arrival, startSeq, wfailed, dropped>>

(* ------------------------- initial states ----------------------------- *)
\* QueueFactory: lines 4-17 (defaults) and the setters of lines 27-45.
\* The field priorities is not the factory's: it is the set of priorities
\* the callers of the queue pass to add.
Configs ==
  [concurrency : 0..MaxChannels, priorityMode : BOOLEAN,
   waitTimeout : {Infinity, 1}, processTimeout : {Infinity, 1},
   priorities : {{0, MaxPriority}}]

FactoryDefaults ==
  [concurrency |-> 0, priorityMode |-> FALSE,
   waitTimeout |-> Infinity, processTimeout |-> Infinity,
   priorities |-> {0}]

\* Queue constructor, lines 74-81: one queue A built from its own factory
\* with configuration c; B is a second queue, idle in this specification.
InitWith(c) ==
  /\ cfg = [q \in Queues |-> IF q = "A" THEN c ELSE FactoryDefaults]
  /\ dest = [q \in Queues |-> Null]
  /\ count = [q \in Queues |-> 0]
  /\ paused = [q \in Queues |-> FALSE]
  /\ wref = [q \in Queues |-> q]
  /\ arrays = [q \in Queues |-> <<>>]
  /\ acts = {}
  /\ deferred = [q \in Queues |-> 0]
  /\ now = 0
  /\ nextId = 1
  /\ arrival = [q \in Queues |-> <<>>]
  /\ startSeq = [q \in Queues |-> <<>>]
  /\ wfailed = [q \in Queues |-> {}]
  /\ dropped = [q \in Queues |-> {}]
  /\ trace = <<>>
  /\ lastOp = [name |-> "init", q |-> "A", id |-> 0, err |-> NoErr, count |-> 0,
               wlen |-> 0, paused |-> FALSE, thrown |-> FALSE]

Init == \E c \in Configs : InitWith(c)

\* A priority queue of one channel whose callers use every priority, without
\* timeouts or with both.
PriorityConfigs ==
  {[concurrency |-> 1, priorityMode |-> TRUE, waitTimeout |-> t,
    processTimeout |-> t, priorities |-> Priorities] : t \in {Infinity, 1}}

InitPriority == \E c \in PriorityConfigs : InitWith(c)

Next ==
  \/ Add("A")
  \/ HandlerCallback("A")
  \/ TimerFire("A")
  \/ DeferredPull("A")
  \/ Pause("A")
  \/ Resume("A")
  \/ Tick

Spec == Init /\ [][Next]_vars

SpecPriority == InitPriority /\ [][Next]_vars

\* Two queues after construction (lines 74-81): cs gives each queue the
\* configuration of its factory, d its destination and wr the array its field
\* waiting refers to.
InitQueues(cs, d, wr) ==
  /\ cfg = cs
  /\ dest = d
  /\ count = [q \in Queues |-> 0]
  /\ paused = [q \in Queues |-> FALSE]
  /\ wref = wr
  /\ arrays = [q \in Queues |-> <<>>]
  /\ acts = {}
  /\ deferred = [q \in Queues |-> 0]
  /\ now = 0
  /\ nextId = 1
  /\ arrival = [q \in Queues |-> <<>>]
  /\ startSeq = [q \in Queues |-> <<>>]
  /\ wfailed = [q \in Queues |-> {}]
  /\ dropped = [q \in Queues |-> {}]
  /\ trace = <<>>
  /\ lastOp = [name |-> "init", q |-> "A", id |-> 0, err |-> NoErr, count |-> 0,
               wlen |-> 0, paused |-> FALSE, thrown |-> FALSE]

\* The usage of lines 179-195 in small: a source queue with both timeouts ...
PipeSource ==
  [concurrency |-> 1, priorityMode |-> FALSE, waitTimeout |-> 1,
   processTimeout |-> 1, priorities |-> {0}]

\* ... and a destination queue, here in priority mode so that the priority
\* its entries arrive with is kept.
PipeDestination ==
  [concurrency |-> 1, priorityMode |-> TRUE, waitTimeout |-> Infinity,
   processTimeout |-> Infinity, priorities |-> {0}]

\* lines 187-194 and 171-174: A and B are built from two factories and A is
\* piped to B.
InitPipe ==
  \E d \in {pipe([dest |-> [q \in Queues |-> Null]], "A", "B").dest} :
    InitQueues([q \in Queues |-> IF q = "A" THEN PipeSource
                                             ELSE PipeDestination],
               d, [q \in Queues |-> q])

\* Callers add to the source only; both queues run.
NextPipe ==
  \/ Add("A")
  \/ \E q \in Queues : HandlerCallback(q)
  \/ \E q \in Queues : TimerFire(q)
  \/ \E q \in Queues : DeferredPull(q)
  \/ \E q \in Queues : Pause(q)
  \/ \E q \in Queues : Resume(q)
  \/ Tick

SpecPipe == InitPipe /\ [][NextPipe]_vars

(* ------------------------------ claims -------------------------------- *)
Q == "A"
W == arrays[wref[Q]]
Conc == cfg[Q].concurrency

Min(a, b) == IF a <= b THEN a ELSE b

\* The events of kind ev in a trace.
EventsOf(tr, ev) == {i \in 1..Len(tr) : tr[i].ev = ev}

\* C1: in every reachable state, whatever the interleaving of add, pause,
\* resume, completions, process-timeout firings and deferred pulls,
\* 0 <= count <= concurrency.
CountWithinChannels ==
  \A q \in Queues : 0 <= count[q] /\ count[q] <= cfg[q].concurrency

\* C1 witness: a process timeout freed a channel of a full queue, the next
\* waiting task took it, and entries still wait.
CountWithinChannelsWitness ==
  /\ lastOp.name = "timer"
  /\ lastOp.count = Conc
  /\ Conc >= 1
  /\ EventsOf(trace, "process") # {}
  /\ count[Q] = Conc
  /\ Len(W) > 0

\* C2 (as claimed): takeNext only ever runs with a free channel, and no entry
\* removed from waiting is lost: each is handed to the handler or failed with
\* 'Waiting timed out'.
NoTaskLost ==
  /\ \A q \in Queues : dropped[q] = {}
  /\ \A i \in EventsOf(trace, "shift") :
       trace[i].count < cfg[trace[i].q].concurrency

\* C3 (as claimed): resume() on a paused queue none of whose entries has
\* exceeded waitTimeout starts exactly min(waiting.length, concurrency - count)
\* tasks, leaves the other entries in waiting in their order, leaves paused
\* false and completes without error.
ResumeStartsMin ==
  [][(/\ lastOp'.name = "resume"
      /\ paused[Q]
      /\ \A i \in 1..Len(W) :
           ~(cfg[Q].waitTimeout # Infinity /\ now - W[i].start > cfg[Q].waitTimeout))
     => LET n == Min(Len(W), Conc - count[Q])
        IN  /\ Cardinality(EventsOf(trace', "process")) = n
            /\ W' = SubSeq(W, n + 1, Len(W))
            /\ ~paused'[Q]
            /\ ~lastOp'.thrown]_vars

\* C4 (as claimed): within a tier (all tasks in FIFO mode, tasks of equal
\* priority in priority mode) the handler is invoked in the order of the add
\* calls.
AdmittedInArrivalOrder ==
  \A q \in Queues :
    \A i, j \in 1..Len(startSeq[q]) :
      LET ai == ArrivalOf(arrival[q], startSeq[q][i])
          aj == ArrivalOf(arrival[q], startSeq[q][j])
      IN  (i < j /\ arrival[q][ai].tier = arrival[q][aj].tier) => ai < aj

\* C5: in priority mode waiting is always sorted by priority descending with
\* equal priorities in arrival order, and every entry takeNext pulls is, of
\* the entries waiting at that moment, one of the highest priority and of
\* these the first added.
PriorityOrderKept ==
  \A q \in Queues :
    cfg[q].priorityMode =>
      /\ \A i, j \in 1..Len(arrays[wref[q]]) :
           LET w == arrays[wref[q]]
           IN  i < j =>
                 \/ w[i].priority > w[j].priority
                 \/ /\ w[i].priority = w[j].priority
                    /\ ArrivalOf(arrival[q], w[i].task.id)
                         < ArrivalOf(arrival[q], w[j].task.id)
      /\ \A i \in EventsOf(trace, "shift") : trace[i].q = q => trace[i].best

\* C5 witness: tasks of priorities 0, 2, 1 were added in this order while
\* none could start, and the handler got them in the order 2, 1, 0.
PriorityOrderKeptWitness ==
  /\ cfg[Q].priorityMode
  /\ [i \in 1..Len(arrival[Q]) |-> arrival[Q][i].tier] = <<0, 2, 1>>
  /\ startSeq[Q] = <<2, 3, 1>>
  /\ EventsOf(trace, "shift") # {}

\* The add call of the last step appended exactly its entry to w, giving w2.
Appended(w, w2, id, t) ==
  \E k \in 1..Len(w2) :
    /\ w2[k].task.id = id
    /\ w2[k].start = t
    /\ w = SubSeq(w2, 1, k - 1) \o SubSeq(w2, k + 1, Len(w2))

AddStep ==
  lastOp'.name = "add" =>
    LET id == lastOp'.id
    IN  IF ~paused[Q] /\ count[Q] < Conc
        THEN /\ Len(trace') >= 1
             /\ trace'[1].ev = "process"
             /\ trace'[1].id = id
             /\ trace'[1].count = count[Q] + 1
             /\ trace'[1].wlen = Len(W)
             /\ \A i \in 1..Len(W') : W'[i].task.id # id
             /\ \E a \in acts' :
                  /\ a.q = Q /\ a.task.id = id
                  /\ ~a.finished =>
                       /\ Len(trace') = 1
                       /\ count'[Q] = count[Q] + 1
                       /\ W' = W
        ELSE /\ Len(trace') = 1
             /\ trace'[1].ev = "enqueue"
             /\ trace'[1].id = id
             /\ count' = count
             /\ acts' = acts
             /\ startSeq' = startSeq
             /\ Len(W') = Len(W) + 1
             /\ Appended(W, W', id, now)

\* C6: add starts the task at once (the handler is invoked with count one
\* higher and waiting untouched; that is also the state add returns in unless
\* the handler has completed meanwhile) when the queue is not paused and
\* count < concurrency, and otherwise appends exactly one entry, leaving count
\* alone and the handler uninvoked; so an unpaused queue that got at most
\* concurrency add calls has nothing waiting.
AddAdmissionRule ==
  /\ [](\A q \in Queues :
          (~paused[q] /\ Len(arrival[q]) <= cfg[q].concurrency)
            => arrays[wref[q]] = <<>>)
  /\ [][AddStep]_vars

\* C6 witness: both cases of add have happened on a queue of two channels:
\* the second add started its task at once, the third had to wait.
AddAdmissionRuleWitness ==
  /\ Conc = MaxChannels
  /\ ~paused[Q]
  /\ lastOp.name = "add"
  /\ lastOp.count = Conc
  /\ count[Q] = Conc
  /\ Len(startSeq[Q]) = Conc
  /\ Len(W) = 1

PausedStep ==
  (paused[Q] /\ lastOp'.name # "resume") =>
    /\ EventsOf(trace', "process") = {}
    /\ EventsOf(trace', "shift") = {}
    /\ startSeq' = startSeq
    /\ lastOp'.name = "add" =>
         \E i \in 1..Len(W') : W'[i].task.id = lastOp'.id
    /\ lastOp'.name = "deferred" => (W' = W /\ count' = count /\ trace' = <<>>)
    /\ lastOp'.name \in {"callback", "timer"} =>
         \A a \in acts :
           (a.q = Q /\ a.task.id = lastOp'.id /\ ~a.finished) =>
             /\ count'[Q] = count[Q] - 1
             /\ \E i \in EventsOf(trace', "done") : trace'[i].id = a.task.id
             /\ \A i \in 1..Len(W) : W'[i] = W[i]

\* C7: while paused no handler invocation begins in any step other than
\* resume(): add only enqueues, a completion pulls nothing, a deferred pull
\* does nothing; a task in flight still completes, decrements count and has
\* its listeners called.
NoStartWhilePaused == [][PausedStep]_vars

\* C7 witness: a task in flight completed while the queue was paused and
\* entries were waiting; they still wait.
NoStartWhilePausedWitness ==
  /\ lastOp.name = "callback"
  /\ lastOp.paused
  /\ lastOp.wlen > 0
  /\ count[Q] = lastOp.count - 1
  /\ Len(W) = lastOp.wlen
  /\ Conc > count[Q]

Range(f) == {f[i] : i \in DOMAIN f}

\* The shift event i of trace returned an entry that had waited too long.
PulledExpired(i) ==
  /\ trace[i].ev = "shift"
  /\ cfg[trace[i].q].waitTimeout # Infinity
  /\ now - trace[i].start > cfg[trace[i].q].waitTimeout

\* C8: an entry pulled after more than waitTimeout is never passed to the
\* handler: onFailure and onDone get 'Waiting timed out' with the task, and
\* the pull leaves count as it was.
WaitTimeoutFails ==
  /\ \A q \in Queues : wfailed[q] \cap Range(startSeq[q]) = {}
  /\ \A i \in 1..Len(trace) :
       PulledExpired(i) =>
         /\ trace[i].id \in wfailed[trace[i].q]
         /\ i + 1 <= Len(trace)
         /\ trace[i + 1].ev = "failure"
         /\ trace[i + 1].id = trace[i].id
         /\ trace[i + 1].err = WaitingTimedOut
         /\ trace[i + 1].count = trace[i].count
         /\ \E j \in (i + 2)..Len(trace) :
              /\ trace[j].ev = "done"
              /\ trace[j].id = trace[i].id
              /\ trace[j].err = WaitingTimedOut
              /\ j = i + 2 => trace[j].count = trace[i].count
         /\ \A j \in EventsOf(trace, "process") : trace[j].id # trace[i].id

\* C8 witness: a completion pulled an entry that had waited too long.
WaitTimeoutFailsWitness ==
  /\ lastOp.name = "callback"
  /\ \E i \in 1..Len(trace) : PulledExpired(i)
  /\ wfailed[Q] # {}

TimerStep ==
  lastOp'.name = "timer" =>
    LET id == lastOp'.id
        fs == {i \in EventsOf(trace', "failure") : trace'[i].id = id}
        ds == {i \in EventsOf(trace', "done") : trace'[i].id = id}
    IN  /\ \A a \in acts : (a.q = Q /\ a.task.id = id) => ~a.finished
        /\ \A a \in acts' : (a.q = Q /\ a.task.id = id) => a.finished
        /\ fs = {1}
        /\ trace'[1].err = ProcessTimedOut
        /\ trace'[1].count = count[Q] - 1
        /\ Cardinality(ds) = 1
        /\ \A i \in ds : trace'[i].err = ProcessTimedOut
        /\ EventsOf(trace', "process") = {} => count'[Q] = count[Q] - 1
        /\ (~paused[Q] /\ Len(W) > 0) =>
             \E i \in EventsOf(trace', "shift") :
               /\ trace'[i].id = Head(W).task.id
               /\ \A j \in EventsOf(trace', "shift") : i <= j
        /\ (paused[Q] \/ Len(W) = 0) => EventsOf(trace', "shift") = {}

\* C9: under a finite processTimeout every started, unfinished task has its
\* timer armed, and when the timer fires onFailure and onDone are called
\* exactly once with 'Process timed out' and the task, count is decremented
\* once, and the head of waiting is pulled if the queue is unpaused and
\* waiting is non-empty.
ProcessTimeoutFinishes ==
  /\ [](\A a \in acts :
          (~a.finished /\ cfg[a.q].processTimeout # Infinity) =>
            a.timer = "armed")
  /\ [][TimerStep]_vars

\* C9 witness: the timer of a task finished it and the next waiting entry
\* was pulled and started.
ProcessTimeoutFinishesWitness ==
  /\ lastOp.name = "timer"
  /\ lastOp.wlen > 0
  /\ ~lastOp.paused
  /\ EventsOf(trace, "shift") # {}
  /\ EventsOf(trace, "process") # {}
  /\ count[Q] = lastOp.count

CallbackStep ==
  lastOp'.name \in {"callback", "timer"} =>
    \A a \in acts :
      (a.q = Q /\ a.task.id = lastOp'.id) =>
        IF a.finished
        THEN /\ UNCHANGED <<count, paused, arrays, acts, deferred, startSeq,
                            wfailed, dropped, dest>>
             /\ Len(trace') = 1
             /\ trace'[1].ev = "ignored"
        ELSE /\ Cardinality({i \in EventsOf(trace', "done") :
                               trace'[i].id = a.task.id}) = 1
             /\ trace'[1].ev \in {"success", "failure"}
             /\ trace'[1].id = a.task.id
             /\ trace'[1].count = count[Q] - 1
             /\ [a EXCEPT !.finished = TRUE,
                          !.timer = IF @ = "none" THEN "none" ELSE "off"]
                  \in acts'

\* C10: only the first invocation of a task's completion callback has an
\* effect: it runs Finish once and decrements count once; any later
\* invocation, by the handler or by the timer, changes nothing; so count is
\* always the number of started tasks whose callback has not yet run, and a
\* finished task has no armed timer.
CallbackIdempotent ==
  /\ [](\A q \in Queues :
          count[q] = Cardinality({a \in acts : a.q = q /\ ~a.finished}))
  /\ [](\A a \in acts : a.finished => a.timer # "armed")
  /\ [][CallbackStep]_vars

\* C10 witness: the handler invoked the callback of a task that the process
\* timeout (or an earlier call) had already finished.
CallbackIdempotentWitness ==
  /\ lastOp.name = "callback"
  /\ Len(trace) = 1
  /\ trace[1].ev = "ignored"
  /\ \E a \in acts : a.task.id = lastOp.id /\ a.finished /\ a.timer = "off"
                      /\ a.task.kind = "async"
  /\ count[Q] = lastOp.count

(* ------------------- claims about two queues -------------------------- *)
Src == "A"
Dst == "B"

\* What this step appended to the arrivals of queue q.
NewArrivals(q) == SubSeq(arrival'[q], Len(arrival[q]) + 1, Len(arrival'[q]))

\* The events of kind ev of queue q in a trace.
EventsAt(tr, q, ev) == {i \in EventsOf(tr, ev) : tr[i].q = q}

PipeStep ==
  LET tr  == trace'
      new == NewArrivals(Dst)
  IN  /\ \A i \in EventsAt(tr, Src, "success") :
           /\ i + 2 <= Len(tr)
           /\ tr[i + 1].ev = "forward" /\ tr[i + 1].q = Src
           /\ tr[i + 1].id = tr[i].id
           /\ tr[i + 2].ev \in {"process", "enqueue"} /\ tr[i + 2].q = Dst
           /\ tr[i + 2].id = tr[i].id
           /\ Cardinality({k \in DOMAIN new : new[k].id = tr[i].id}) = 1
      /\ \A i \in EventsAt(tr, Src, "forward") :
           i > 1 /\ tr[i - 1].ev = "success" /\ tr[i - 1].q = Src
      /\ \A k \in DOMAIN new :
           /\ new[k].tier = 0
           /\ \/ \E i \in EventsAt(tr, Src, "success") : tr[i].id = new[k].id
              \/ new[k].id >= nextId
      /\ \A i \in EventsAt(tr, Src, "failure") :
           \A k \in DOMAIN arrival'[Dst] : arrival'[Dst][k].id # tr[i].id

\* C11: with A piped to B, every task of A that finishes without error is
\* added to B exactly once, with priority 0, right after onSuccess; no task
\* of A that finished with an error (handler error, process timeout, wait
\* timeout) is ever added to B.
PipeForwardsSuccesses ==
  /\ [](\A i, j \in DOMAIN arrival[Dst] :
          arrival[Dst][i].id = arrival[Dst][j].id => i = j)
  /\ [](\A k \in DOMAIN arrival[Dst] :
          arrival[Dst][k].id \notin wfailed[Src] \cup dropped[Src])
  /\ [][PipeStep]_vars

\* C11 witness: a task of A succeeded and was handed to B, which was busy
\* and put it in its waiting array, after an earlier task of A had failed
\* with a wait timeout.
PipeForwardsSuccessesWitness ==
  /\ lastOp.name = "callback" /\ lastOp.q = Src /\ lastOp.err = NoErr
  /\ Len(trace) >= 3
  /\ trace[1].ev = "success" /\ trace[2].ev = "forward"
  /\ trace[3].ev = "enqueue" /\ trace[3].q = Dst
  /\ Len(arrival[Dst]) = 2
  /\ wfailed[Src] # {}

(* --------------------- claims about one queue, continued -------------- *)
\* The completions of started tasks in a trace that took count from 1 to 0:
\* the first listener call of a completion sees count just after count--.
ToZero(tr, q) ==
  {i \in 1..Len(tr) : /\ tr[i].q = q
                      /\ tr[i].ev \in {"success", "failure"}
                      /\ tr[i].err # WaitingTimedOut
                      /\ tr[i].count = 0}

\* C12 (as claimed): onDrain is invoked exactly once per transition of count
\* from 1 to 0 and never without one: in every step the drain events are as
\* many as these transitions, and each follows the onDone of a started
\* task's completion, never that of a wait timeout.
DrainOncePerTransition ==
  \A q \in Queues :
    /\ Cardinality(EventsAt(trace, q, "drain")) = Cardinality(ToZero(trace, q))
    /\ \A k \in EventsAt(trace, q, "drain") :
         /\ k > 1
         /\ trace[k - 1].ev = "done"
         /\ trace[k - 1].err # WaitingTimedOut

(* ---------------------- two queues of one factory --------------------- *)
\* The configuration of the factory both queues are built from.
SharedFactory ==
  [concurrency |-> 1, priorityMode |-> FALSE, waitTimeout |-> 1,
   processTimeout |-> 1, priorities |-> {0}]

\* lines 23-25 and 74-81: A and B are built by two calls of build() on one
\* factory.  Object.assign (line 80) copies the factory's fields into each
\* queue: the numbers by value, waiting by reference, so that both queues'
\* field waiting is the factory's one array (line 7), here the array "A".
InitShared ==
  InitQueues([q \in Queues |-> SharedFactory], [q \in Queues |-> Null],
             [q \in Queues |-> "A"])

\* Callers add to both queues, and pause and resume A.
NextShared ==
  \/ \E q \in Queues : Add(q)
  \/ \E q \in Queues : HandlerCallback(q)
  \/ \E q \in Queues : TimerFire(q)
  \/ \E q \in Queues : DeferredPull(q)
  \/ Pause("A")
  \/ Resume("A")
  \/ Tick

SpecShared == InitShared /\ [][NextShared]_vars

\* C13 (as claimed): waiting and count are private to each queue: a step of
\* one queue that hands nothing to its destination leaves the waiting array
\* and the count of every other queue as they were.
StatePrivate ==
  [][\A q \in Queues :
       (/\ lastOp'.name \notin {"init", "tick"}
        /\ lastOp'.q # q
        /\ EventsOf(trace', "forward") = {})
         => /\ arrays'[wref'[q]] = arrays[wref[q]]
            /\ count'[q] = count[q]]_vars

\* C14 (as claimed, in the form a finite run refutes): with concurrency >= 1,
\* once the queue is unpaused and its callers have stopped, waiting becomes
\* empty.  Waiting entries are only removed by a completion, a process
\* timeout, a deferred pull or a call of resume; so a state of an unpaused
\* queue in which no started task is unfinished and no deferred pull is
\* pending must have an empty waiting array, or its entries wait forever.
WaitingEventuallyServed ==
  (/\ Conc >= 1
   /\ ~paused[Q]
   /\ deferred[Q] = 0
   /\ \A a \in acts : a.q = Q => a.finished)
    => W = <<>>

\* The wait-timeout failures a trace reports for queue q.
WaitFailures(tr, q) ==
  {i \in EventsAt(tr, q, "failure") : tr[i].err = WaitingTimedOut}

\* C16 (as claimed): no synchronous step (a completion, a deferred pull, a
\* call of resume) reports more than one wait-timeout failure, and after
\* reporting one it pulls no further entry: the next pull is deferred.
OneWaitTimeoutPerStep ==
  \A q \in Queues :
    /\ Cardinality(WaitFailures(trace, q)) <= 1
    /\ \A i \in WaitFailures(trace, q) :
         \A j \in EventsAt(trace, q, "shift") : j < i

\* C17 (as claimed): between steps, an unpaused queue with no deferred pull
\* pending and a non-empty waiting array has all its channels busy.
WorkConserving ==
  \A q \in Queues :
    (~paused[q] /\ deferred[q] = 0 /\ Len(arrays[wref[q]]) > 0)
      => count[q] = cfg[q].concurrency

(* --------------------------- listener order --------------------------- *)
\* The first listener calls of the Finish procedures in a trace.
Finishes(tr) == EventsOf(tr, "success") \cup EventsOf(tr, "failure")

\* The onDone call that ends the Finish begun at event i.
DoneOf(tr, i) ==
  {j \in EventsOf(tr, "done") :
     j > i /\ tr[j].q = tr[i].q /\ tr[j].id = tr[i].id}

\* C15: within one Finish the order is onSuccess, destination.add (if a
\* destination is wired), onDone, or onFailure, onDone with no forwarding;
\* onDrain, when count is 0, comes last; the Finish of a started task comes
\* after its count-- and before the next waiting entry is pulled.
ListenerOrder ==
  /\ \A i \in Finishes(trace) :
       LET q == trace[i].q
       IN  /\ Cardinality(DoneOf(trace, i)) = 1
           /\ \A j \in DoneOf(trace, i) :
                /\ trace[j].err = trace[i].err
                /\ \A m \in (i + 1)..(j - 1) :
                     trace[m].q = q =>
                       trace[m].ev \in {"forward", "enqueue", "process"}
                /\ \A m \in EventsAt(trace, q, "forward") :
                     trace[m].id = trace[i].id =>
                       trace[i].ev = "success" /\ m = i + 1
                /\ (trace[i].ev = "success" /\ dest[q] # Null) =>
                     /\ i + 1 < j
                     /\ trace[i + 1].ev = "forward"
                     /\ trace[i + 1].q = q
                     /\ trace[i + 1].id = trace[i].id
                /\ trace[j].count = 0 =>
                     /\ j + 1 <= Len(trace)
                     /\ trace[j + 1].ev = "drain"
                     /\ trace[j + 1].q = q
           /\ trace[i].err # WaitingTimedOut =>
                IF i = 1
                THEN /\ lastOp.name \in {"callback", "timer"}
                     /\ lastOp.q = q
                     /\ trace[i].count = lastOp.count - 1
                ELSE /\ trace[i - 1].ev = "process"
                     /\ trace[i - 1].q = q
                     /\ trace[i - 1].id = trace[i].id
                     /\ trace[i].count = trace[i - 1].count - 1
  /\ \A k \in EventsOf(trace, "drain") :
       /\ k > 1
       /\ trace[k - 1].ev = "done"
       /\ trace[k - 1].q = trace[k].q
       /\ trace[k].count = 0

\* C15 witness: the source's task succeeded with another entry waiting: in
\* this order onSuccess, the hand-over to the destination, onDone, onDrain,
\* and only then the pull of the next entry.
ListenerOrderWitness ==
  /\ lastOp.name = "callback" /\ lastOp.q = Src /\ lastOp.wlen > 0
  /\ Len(trace) >= 6
  /\ trace[1].ev = "success" /\ trace[2].ev = "forward"
  /\ trace[3].q = Dst
  /\ \E j \in EventsAt(trace, Src, "done") :
       /\ j + 2 <= Len(trace)
       /\ trace[j + 1].ev = "drain"
       /\ trace[j + 2].ev = "shift"
       /\ trace[j + 2].q = Src

(* ------------------------ occupancy accounting ------------------------ *)
\* The completions of started tasks that took effect in a trace.
Completions(tr, q) ==
  {i \in 1..Len(tr) : /\ tr[i].q = q
                      /\ tr[i].ev \in {"success", "failure"}
                      /\ tr[i].err # WaitingTimedOut}

CountStep ==
  /\ count'[Q] = count[Q] + Cardinality(EventsAt(trace', Q, "process"))
                          - Cardinality(Completions(trace', Q))
  /\ \A i \in EventsAt(trace', Q, "shift") :
       trace'[i].err = WaitingTimedOut =>
         /\ i + 1 <= Len(trace')
         /\ trace'[i + 1].ev = "failure"
         /\ trace'[i + 1].count = trace'[i].count

\* C18: count is the number of tasks whose handler next() has invoked and
\* whose completion callback has not yet taken effect: each step changes it
\* by the handler invocations minus the completions that took effect, and a
\* 'Waiting timed out' failure leaves it as it is.
CountIsOccupancy ==
  /\ [](count[Q] =
          Len(startSeq[Q]) - Cardinality({a \in acts : a.q = Q /\ a.finished}))
  /\ [][CountStep]_vars

\* C18 witness: a deferred pull failed an entry that had waited too long
\* while a started task was still running: count stayed at 1.
CountIsOccupancyWitness ==
  /\ lastOp.name = "deferred"
  /\ WaitFailures(trace, Q) # {}
  /\ EventsAt(trace, Q, "process") = {}
  /\ lastOp.count >= 1
  /\ count[Q] = lastOp.count
  /\ \E a \in acts : a.q = Q /\ ~a.finished

(* ----------------------------- at most once --------------------------- *)
\* The events of kind ev of queue q about task id in a trace.
EventsAbout(tr, q, ev, id) == {i \in EventsAt(tr, q, ev) : tr[i].id = id}

\* Tasks of Q for which Finish has run before this step.
Finished == wfailed[Q] \cup {a.task.id : a \in {b \in acts : b.q = Q /\ b.finished}}

OnceStep ==
  /\ \A i \in EventsAt(trace', Q, "process") :
       /\ trace'[i].id \notin Range(startSeq[Q])
       /\ trace'[i].id \notin wfailed'[Q]
       /\ Cardinality(EventsAbout(trace', Q, "process", trace'[i].id)) = 1
  /\ \A i \in EventsAt(trace', Q, "done") :
       /\ trace'[i].id \notin Finished
       /\ Cardinality(EventsAbout(trace', Q, "done", trace'[i].id)) = 1

\* C19: for each add call the handler is invoked at most once and Finish
\* (onDone) runs at most once; no task is both failed with 'Waiting timed
\* out' and passed to the handler, and none is started twice.
AtMostOnce ==
  /\ [](\A i, j \in DOMAIN startSeq[Q] :
          startSeq[Q][i] = startSeq[Q][j] => i = j)
  /\ [](\A i, j \in DOMAIN arrival[Q] :
          arrival[Q][i].id = arrival[Q][j].id => i = j)
  /\ [](Range(startSeq[Q]) \cap (wfailed[Q] \cup dropped[Q]) = {})
  /\ [][OnceStep]_vars

\* C19 witness: of three tasks added, one was failed after waiting too long
\* and never seen by the handler, two were started and have finished, and
\* the handler of one of them has just called back a second time.
AtMostOnceWitness ==
  /\ wfailed[Q] # {}
  /\ Len(startSeq[Q]) = 2
  /\ Len(arrival[Q]) = 3
  /\ \A a \in acts : a.finished
  /\ lastOp.name = "callback"
  /\ EventsOf(trace, "ignored") # {}
  /\ EventsOf(trace, "done") = {}

====
